---- MODULE Spec2Model ----
(***************************************************************************)
(* A model of scripts/ai-code-reviewer.py: the diff parser, the validation *)
(* and normalisation of the language model's suggestions, and the run of   *)
(* main() over the changed files of a pull request.                        *)
(*                                                                         *)
(* Text is modelled by what the code looks at.  A patch is a sequence of   *)
(* lines; a line is a record holding its prefix (p) and, for a line that   *)
(* starts with "@@", whether the hunk-header pattern matches it (m) and    *)
(* the new-file start the pattern extracts (c).  A comment is a sequence   *)
(* of characters.  A JSON value is a record tagged with its Python type.   *)
(*                                                                         *)
(* SpecParse runs parse_diff_for_review on every patch of a bounded set,   *)
(* SpecNorm runs the comment normalisation on every bounded comment, and   *)
(* Spec is the run of main(): each action is the code between two calls to *)
(* the outside (file listing, file read, model, POST), whose outcomes are  *)
(* chosen freely.  File classification and the prompt's wording decide no  *)
(* control flow and are left out.                                          *)
(***************************************************************************)
EXTENDS Integers, Sequences, FiniteSets

VARIABLES
    pc,                  \* position of the run
    files,               \* main: files, the listing fetch_pr_files returned
    files_to_review,     \* main: files_to_review
    i,                   \* main: i, the 1-based index of the file under review
    patch,               \* review_file_inline: patch
    context_lines,       \* review_file_inline: context_lines
    valid_comment_lines, \* review_file_inline: valid_comment_lines
    suggestions,         \* review_file_inline: suggestions (parsed model output)
    valid_suggestions,   \* review_file_inline: valid_suggestions
    n_posted,            \* review_file_inline: iterations of the posting loop begun
    comment,             \* the raw 'comment' string under normalisation
    comment_text,        \* review_file_inline: comment_text
    response,            \* post_inline_comment: the last POST's status, the wait before and after it
    summary,             \* main: summary, the body generate_architectural_summary returned
    outcome,             \* history: how the review of file i ended
    posts,               \* history: inline comments handed to post_inline_comment for file i
    trace                \* history: the calls and waits of the run outside the posting loop

vars == <<pc, files, files_to_review, i, patch, context_lines, valid_comment_lines,
          suggestions, valid_suggestions, n_posted, comment, comment_text, response,
          summary, outcome, posts, trace>>

(***************************************************************************)
(* Program constants.                                                      *)
(***************************************************************************)
API_DELAY == 2
MAX_COMMENTS_PER_FILE == 5
CONTEXT_LIMIT == 300

(***************************************************************************)
(* Bounds of the model.                                                    *)
(***************************************************************************)
MaxPatchLen == 4
MaxCommentLen == 3
MaxFiles == 2
MaxSuggestions == 2

Min(a, b) == IF a < b THEN a ELSE b

Rep(e, n) == [j \in 1..n |-> e]

SeqsUpTo(S, n) == UNION {[1..m -> S] : m \in 0..n}

(***************************************************************************)
(* parse_diff_for_review                                                   *)
(***************************************************************************)
HunkStarts == {1, 3, 10}

Header(c) == [p |-> "@@", m |-> TRUE, c |-> c]
BadHeader == [p |-> "@@", m |-> FALSE, c |-> 0]
Body(p) == [p |-> p, t |-> "x"]

PatchLines == {Header(c) : c \in HunkStarts} \cup {BadHeader}
                 \cup {Body(p) : p \in {"+", " ", "-", "\\"}}

\* The loop state before the first line (lines 112-114).
ParseInit == [new_line_number |-> 0, context_lines |-> <<>>, valid_comment_lines |-> {}]

\* A plausible slip: a removed line advances the destination counter.
ParseStepCountsRemoved(st, line) ==
    IF line.p = "@@"
    THEN IF line.m THEN [st EXCEPT !.new_line_number = line.c - 1] ELSE st
    ELSE IF line.p = "+"
    THEN [new_line_number |-> st.new_line_number + 1,
          context_lines |-> Append(st.context_lines,
                                   [line_number |-> st.new_line_number + 1,
                                    content |-> line.t, type |-> "added"]),
          valid_comment_lines |-> st.valid_comment_lines \cup {st.new_line_number + 1}]
    ELSE IF line.p = " "
    THEN [st EXCEPT !.new_line_number = st.new_line_number + 1,
                    !.context_lines = Append(st.context_lines,
                                             [line_number |-> st.new_line_number + 1,
                                              content |-> line.t, type |-> "context"])]
    ELSE IF line.p = "-"
    THEN [st EXCEPT !.new_line_number = st.new_line_number + 1]
    ELSE st

\* A plausible slip: a '@@' line the pattern does not match resets the counter.
ParseStepResetsOnMismatch(st, line) ==
    IF line.p = "@@"
    THEN [st EXCEPT !.new_line_number = IF line.m THEN line.c - 1 ELSE 0]
    ELSE IF line.p = "+"
    THEN [new_line_number |-> st.new_line_number + 1,
          context_lines |-> Append(st.context_lines,
                                   [line_number |-> st.new_line_number + 1,
                                    content |-> line.t, type |-> "added"]),
          valid_comment_lines |-> st.valid_comment_lines \cup {st.new_line_number + 1}]
    ELSE IF line.p = " "
    THEN [st EXCEPT !.new_line_number = st.new_line_number + 1,
                    !.context_lines = Append(st.context_lines,
                                             [line_number |-> st.new_line_number + 1,
                                              content |-> line.t, type |-> "context"])]
    ELSE st

\* A plausible slip: a context line is recorded as a comment target too.
ParseStepContextIsTarget(st, line) ==
    IF line.p = "@@"
    THEN IF line.m THEN [st EXCEPT !.new_line_number = line.c - 1] ELSE st
    ELSE IF line.p = "+"
    THEN [new_line_number |-> st.new_line_number + 1,
          context_lines |-> Append(st.context_lines,
                                   [line_number |-> st.new_line_number + 1,
                                    content |-> line.t, type |-> "added"]),
          valid_comment_lines |-> st.valid_comment_lines \cup {st.new_line_number + 1}]
    ELSE IF line.p = " "
    THEN [new_line_number |-> st.new_line_number + 1,
          context_lines |-> Append(st.context_lines,
                                   [line_number |-> st.new_line_number + 1,
                                    content |-> line.t, type |-> "context"]),
          valid_comment_lines |-> st.valid_comment_lines \cup {st.new_line_number + 1}]
    ELSE st

\* One iteration of the loop over the patch's lines (lines 116-140).
ParseStep(st, line) ==
    IF line.p = "@@"
    THEN IF line.m THEN [st EXCEPT !.new_line_number = line.c - 1] ELSE st
    ELSE IF line.p = "+"
    THEN [new_line_number |-> st.new_line_number + 1,
          context_lines |-> Append(st.context_lines,
                                   [line_number |-> st.new_line_number + 1,
                                    content |-> line.t, type |-> "added"]),
          valid_comment_lines |-> st.valid_comment_lines \cup {st.new_line_number + 1}]
    ELSE IF line.p = " "
    THEN [st EXCEPT !.new_line_number = st.new_line_number + 1,
                    !.context_lines = Append(st.context_lines,
                                             [line_number |-> st.new_line_number + 1,
                                              content |-> line.t, type |-> "context"])]
    ELSE st

\* The loop of line 116: ParseStep applied to lines lo..hi in order.  The range is
\* split in halves, and the state after the first half is computed before the
\* second half starts, only to keep the evaluation shallow on long patches.
RECURSIVE ParseLoop(_, _, _, _)
ParseLoop(lines, lo, hi, st) ==
    IF lo > hi THEN st
    ELSE IF lo = hi THEN ParseStep(st, lines[lo])
    ELSE LET mid == (lo + hi) \div 2
             left == ParseLoop(lines, lo, mid, st)
         IN IF left.new_line_number = left.new_line_number
            THEN ParseLoop(lines, mid + 1, hi, left)
            ELSE left

\* A plausible slip: the valid-line set is cut with the context (derived from the
\* truncated list).
parse_diff_truncates_valid(p) ==
    LET st == ParseLoop(p, 1, Len(p), ParseInit)
        cut == SubSeq(st.context_lines, 1, Min(CONTEXT_LIMIT, Len(st.context_lines)))
    IN [context_lines |-> cut,
        valid_comment_lines |-> {cut[j].line_number : j \in {n \in 1..Len(cut) : cut[n].type = "added"}}]

parse_diff_for_review(p) ==
    LET st == ParseLoop(p, 1, Len(p), ParseInit)
    IN [context_lines |-> SubSeq(st.context_lines, 1,
                                 Min(CONTEXT_LIMIT, Len(st.context_lines))),
        valid_comment_lines |-> st.valid_comment_lines]

(***************************************************************************)
(* The parser alone: a patch drawn from the bounded set, then parsed.      *)
(***************************************************************************)
ShortPatches == SeqsUpTo(PatchLines, MaxPatchLen)

\* Patches around the context limit: a run of context or added lines after a
\* header, followed by a short tail.
LongPatches ==
    {<<Header(1)>> \o Rep(Body(b), n) \o tail :
        b \in {" ", "+"},
        n \in {CONTEXT_LIMIT - 1, CONTEXT_LIMIT},
        tail \in SeqsUpTo(PatchLines \ {BadHeader, Body("\\")}, MaxPatchLen - 2)}

Patches == ShortPatches \cup LongPatches

NoResponse == [status |-> 0, before |-> 0, after |-> 0]

\* The variables of main() before the run starts.
NoRun ==
    /\ files = <<>>
    /\ files_to_review = <<>>
    /\ i = 0
    /\ summary = "none"
    /\ trace = <<>>

\* The variables of the posting loop before it starts.
NoPosting ==
    /\ suggestions = <<>>
    /\ valid_suggestions = <<>>
    /\ n_posted = 0
    /\ response = NoResponse
    /\ outcome = "none"
    /\ posts = <<>>

InitParse ==
    /\ pc = "parse"
    /\ NoRun
    /\ NoPosting
    /\ patch \in Patches
    /\ context_lines = <<>>
    /\ valid_comment_lines = {}
    /\ comment = <<>>
    /\ comment_text = <<>>

\* Line 176: context_lines, valid_comment_lines = parse_diff_for_review(patch)
ParseDiff ==
    /\ pc = "parse"
    /\ context_lines' = parse_diff_for_review(patch).context_lines
    /\ valid_comment_lines' = parse_diff_for_review(patch).valid_comment_lines
    /\ pc' = "parsed"
    /\ UNCHANGED <<files, files_to_review, i, patch, suggestions, valid_suggestions,
                   n_posted, comment, comment_text, response, summary, outcome, posts,
                   trace>>

NextParse == ParseDiff

SpecParse == InitParse /\ [][NextParse]_vars

(***************************************************************************)
(* The vocabulary of the parser's claims, stated on the patch itself and   *)
(* not through the loop: the matched header a line falls under, the lines  *)
(* that occupy a destination line, and the number such a line should get.  *)
(***************************************************************************)
Parsed == pc = "parsed"

Emitting(l) == l.p \in {"+", " "}

IsHeader(l) == l.p = "@@" /\ l.m

Emitted(p, lo, hi) == {r \in lo..hi : Emitting(p[r])}

AddedAt(p) == {q \in 1..Len(p) : p[q].p = "+"}

LastHeader(p, q) ==
    LET hs == {h \in 1..q : IsHeader(p[h])}
    IN IF hs = {} THEN 0 ELSE CHOOSE h \in hs : \A g \in hs : g <= h

DestLine(p, q) ==
    LET h == LastHeader(p, q)
    IN (IF h = 0 THEN 0 ELSE p[h].c - 1) + Cardinality(Emitted(p, h + 1, q))

Rank(p, q) == Cardinality(Emitted(p, 1, q))

KindOf(l) == IF l.p = "+" THEN "added" ELSE "context"

\* No matched hunk header puts the counter below the number it has reached.
HeadersAscend(p) ==
    \A h \in 1..Len(p) : IsHeader(p[h]) => p[h].c - 1 >= DestLine(p, h - 1)

NonDecreasing(cl) ==
    \A a \in 1..(Len(cl) - 1) : cl[a].line_number <= cl[a + 1].line_number

\* C4 as stated: for any patch with k lines beginning with '+', the valid-line
\* set has exactly k members.
C4_AnyPatchExactlyK ==
    Parsed => Cardinality(valid_comment_lines) = Cardinality(AddedAt(patch))

\* C4 amended: the valid-line set never has more than k members, and it has
\* exactly k whenever no hunk header moves the counter back (as in any unified
\* diff, whose hunks ascend without overlap).
C4_ExactlyKWhenHeadersAscend ==
    Parsed =>
        /\ Cardinality(valid_comment_lines) <= Cardinality(AddedAt(patch))
        /\ HeadersAscend(patch) =>
               Cardinality(valid_comment_lines) = Cardinality(AddedAt(patch))

C4_Witness ==
    /\ Parsed
    /\ HeadersAscend(patch)
    /\ Cardinality({h \in 1..Len(patch) : IsHeader(patch[h])}) >= 2
    /\ \E q \in AddedAt(patch) : LastHeader(patch, q) = 1
    /\ \E q \in AddedAt(patch) : LastHeader(patch, q) > 1
    /\ Cardinality(valid_comment_lines) = Cardinality(AddedAt(patch))

\* C5: in a hunk whose header declares start c, the n-th '+' or ' ' line after
\* the header gets destination line c + n - 1 and kind added or context; '-'
\* lines emit nothing and leave the counter alone.
C5_HunkNumbering ==
    Parsed =>
        /\ \A q \in 1..Len(patch) :
               (Emitting(patch[q]) /\ LastHeader(patch, q) # 0) =>
                   LET h == LastHeader(patch, q)
                       n == Cardinality(Emitted(patch, h + 1, q))
                       j == Rank(patch, q)
                   IN /\ j <= Len(context_lines) =>
                             /\ context_lines[j].line_number = patch[h].c + n - 1
                             /\ context_lines[j].type = KindOf(patch[q])
                      /\ patch[q].p = "+" => (patch[h].c + n - 1) \in valid_comment_lines
        /\ Len(context_lines) <= Cardinality(Emitted(patch, 1, Len(patch)))

C5_Witness ==
    /\ Parsed
    /\ patch = <<Header(10), Body("-"), Body(" "), Body("+")>>
    /\ Len(context_lines) = 2
    /\ context_lines[1].line_number = 10 /\ context_lines[1].type = "context"
    /\ context_lines[2].line_number = 11 /\ context_lines[2].type = "added"
    /\ valid_comment_lines = {11}

\* C6: at most 300 DiffLines are returned, the first 300 emitted in patch
\* order; the valid-line set is not cut and holds the number of every added
\* line, also of those emitted after the 300th; a patch of context lines only
\* gives an empty set and min(number of context lines, 300) DiffLines.
C6_ContextCutValidNot ==
    Parsed =>
        /\ Len(context_lines) =
               Min(CONTEXT_LIMIT, Cardinality(Emitted(patch, 1, Len(patch))))
        /\ \A q \in Emitted(patch, 1, Len(patch)) :
               Rank(patch, q) <= CONTEXT_LIMIT =>
                   context_lines[Rank(patch, q)] =
                       [line_number |-> DestLine(patch, q), content |-> patch[q].t,
                        type |-> KindOf(patch[q])]
        /\ valid_comment_lines = {DestLine(patch, q) : q \in AddedAt(patch)}
        /\ (\A q \in 1..Len(patch) : patch[q].p = " ") =>
               /\ valid_comment_lines = {}
               /\ Len(context_lines) = Min(Len(patch), CONTEXT_LIMIT)

C6_Witness ==
    /\ Parsed
    /\ Len(context_lines) = CONTEXT_LIMIT
    /\ \E q \in AddedAt(patch) :
           /\ Rank(patch, q) > CONTEXT_LIMIT
           /\ DestLine(patch, q) \in valid_comment_lines
           /\ \A j \in 1..Len(context_lines) :
                  context_lines[j].line_number # DestLine(patch, q)

\* C7 as stated: for any patch the DiffLines' line numbers are non-decreasing
\* in sequence order, across all hunks.
C7_AnyPatchNonDecreasing == Parsed => NonDecreasing(context_lines)

\* C7 amended: the line numbers are non-decreasing across all hunks of any patch
\* in which no hunk header moves the counter back.
C7_NonDecreasingWhenHeadersAscend ==
    (Parsed /\ HeadersAscend(patch)) => NonDecreasing(context_lines)

C7_Witness ==
    /\ Parsed
    /\ HeadersAscend(patch)
    /\ Len(context_lines) >= 2
    /\ \E q \in 2..Len(patch) :
           /\ IsHeader(patch[q])
           /\ Emitted(patch, 1, q) # {}
           /\ Emitted(patch, q, Len(patch)) # {}
    /\ NonDecreasing(context_lines)

ContextNumbers(cl) == {cl[n].line_number : n \in {m \in 1..Len(cl) : cl[m].type = "context"}}

\* C16 as stated: for any patch, no line number carried by a context DiffLine
\* is in the valid-line set, and the set holds exactly the numbers of the added
\* lines.
C16_AnyPatchContextNeverValid ==
    Parsed =>
        /\ ContextNumbers(context_lines) \cap valid_comment_lines = {}
        /\ valid_comment_lines = {DestLine(patch, q) : q \in AddedAt(patch)}

\* C16 amended: the set holds exactly the numbers of the added lines of any
\* patch, and it shares no number with the context DiffLines whenever no hunk
\* header moves the counter back.
C16_ContextNeverValidWhenHeadersAscend ==
    Parsed =>
        /\ valid_comment_lines = {DestLine(patch, q) : q \in AddedAt(patch)}
        /\ \A n \in 1..Len(context_lines) :
               context_lines[n].type = "added" =>
                   context_lines[n].line_number \in valid_comment_lines
        /\ HeadersAscend(patch) =>
               ContextNumbers(context_lines) \cap valid_comment_lines = {}

C16_Witness ==
    /\ Parsed
    /\ HeadersAscend(patch)
    /\ Cardinality({h \in 1..Len(patch) : IsHeader(patch[h])}) >= 2
    /\ ContextNumbers(context_lines) # {}
    /\ valid_comment_lines # {}
    /\ ContextNumbers(context_lines) \cap valid_comment_lines = {}

\* C19: a '@@' line that the hunk-header pattern does not match leaves the
\* loop's state as it was (the counter is unchanged and no DiffLine is
\* emitted), and the '+' and ' ' lines after it go on from the number reached
\* before it, which is 0 when no hunk precedes.
C19_MalformedHeaderKeepsCounter ==
    Parsed =>
        \A q \in 1..Len(patch) :
            patch[q] = BadHeader =>
                LET before == ParseLoop(patch, 1, q - 1, ParseInit)
                IN /\ ParseLoop(patch, 1, q, ParseInit) = before
                   /\ LastHeader(patch, q) = 0 =>
                          before.new_line_number = Cardinality(Emitted(patch, 1, q))
                   /\ \A r \in (q + 1)..Len(patch) :
                          (Emitting(patch[r]) /\ LastHeader(patch, r) < q) =>
                              /\ Rank(patch, r) <= Len(context_lines)
                              /\ context_lines[Rank(patch, r)].line_number =
                                     before.new_line_number
                                         + Cardinality(Emitted(patch, q, r))

C19_Witness ==
    /\ Parsed
    /\ patch = <<Header(10), Body("+"), BadHeader, Body("+")>>
    /\ Len(context_lines) = 2
    /\ context_lines[2].line_number = 11
    /\ valid_comment_lines = {10, 11}

(***************************************************************************)
(* Comment normalisation (lines 262-266).                                  *)
(***************************************************************************)
Chars == {" ", "a", ".", "!", "?"}

SENTENCE_END == {".", "!", "?"}

IsSpace(ch) == ch = " "

RECURSIVE lstrip(_)
lstrip(str) ==
    IF str # <<>> /\ IsSpace(Head(str)) THEN lstrip(Tail(str)) ELSE str

RECURSIVE rstrip(_)
rstrip(str) ==
    IF str # <<>> /\ IsSpace(str[Len(str)])
    THEN rstrip(SubSeq(str, 1, Len(str) - 1))
    ELSE str

\* str.strip()
strip(str) == rstrip(lstrip(str))

\* str.endswith(tuple)
endswith(str, suffixes) == str # <<>> /\ str[Len(str)] \in suffixes

\* A plausible slip: the period is appended to the untrimmed comment.
NormalizeWithoutStrip(raw) ==
    IF raw # <<>> /\ ~endswith(raw, SENTENCE_END) THEN Append(raw, ".") ELSE raw

\* Lines 262-266: strip, then append '.' to a non-empty text that lacks one.
NormalizeComment(raw) ==
    LET text == strip(raw)
    IN IF text # <<>> /\ ~endswith(text, SENTENCE_END) THEN Append(text, ".") ELSE text

InitNorm ==
    /\ pc = "normalize"
    /\ NoRun
    /\ NoPosting
    /\ patch = <<>>
    /\ context_lines = <<>>
    /\ valid_comment_lines = {}
    /\ comment \in SeqsUpTo(Chars, MaxCommentLen)
    /\ comment_text = <<>>

\* Lines 262-266 applied to the raw comment.
Normalize ==
    /\ pc = "normalize"
    /\ comment_text' = NormalizeComment(comment)
    /\ pc' = "normalized"
    /\ UNCHANGED <<files, files_to_review, i, patch, context_lines, valid_comment_lines,
                   suggestions, valid_suggestions, n_posted, comment, response, summary,
                   outcome, posts, trace>>

NextNorm == Normalize

SpecNorm == InitNorm /\ [][NextNorm]_vars

\* The comment without its leading and trailing whitespace, stated by position.
Trimmed(str) ==
    LET ink == {n \in 1..Len(str) : ~IsSpace(str[n])}
    IN IF ink = {} THEN <<>>
       ELSE SubSeq(str, CHOOSE a \in ink : \A b \in ink : a <= b,
                        CHOOSE a \in ink : \A b \in ink : b <= a)

Normalized == pc = "normalized"

JInt(n) == [k |-> "int", n |-> n]
JFloat(n) == [k |-> "float", n |-> n]
JStr(str) == [k |-> "str", s |-> str]
JNull == [k |-> "null"]
JList == [k |-> "list"]
JObj(line, text) == [k |-> "obj", has |-> {"line", "comment"}, line |-> line, comment |-> text]
JObjLineOnly(line) == [k |-> "obj", has |-> {"line"}, line |-> line]
JObjCommentOnly(text) == [k |-> "obj", has |-> {"comment"}, comment |-> text]
\* A string element: `key in element` is a substring test.
JText(has) == [k |-> "str", has |-> has]
\* A number as element: `key in element` raises TypeError.
JNumber == [k |-> "int", has |-> {}]

\* `x in valid_comment_lines` for a hashable x: Python compares numbers by value.
PyIn(x, lines) == x.k \in {"int", "float"} /\ x.n \in lines

\* hash(x) raises TypeError for a list or an object.
Unhashable(x) == x.k \in {"list", "obj"}

\* The validation loop's state before the first suggestion (line 239).
FilterInit == [valid |-> <<>>, raised |-> FALSE, stopped |-> FALSE]

\* A plausible slip: the membership test of line 247 is left out.
FilterStepAcceptsAnyLine(acc, el) ==
    IF acc.raised \/ acc.stopped THEN acc
    ELSE IF el.k \notin {"obj", "str", "list"} THEN [acc EXCEPT !.raised = TRUE]
    ELSE IF ~({"line", "comment"} \subseteq el.has) THEN acc
    ELSE IF el.k # "obj" THEN [acc EXCEPT !.raised = TRUE]
    ELSE IF Unhashable(el.line) THEN [acc EXCEPT !.raised = TRUE]
    ELSE [acc EXCEPT !.valid = Append(acc.valid, el),
                     !.stopped = Len(acc.valid) + 1 >= MAX_COMMENTS_PER_FILE]

\* One iteration of the validation loop (lines 240-255).  `key in suggestion`
\* raises TypeError on a number or null; suggestion['line'] raises it on a
\* string or a list; the set membership test raises it on an unhashable line.
FilterStep(acc, el) ==
    IF acc.raised \/ acc.stopped THEN acc
    ELSE IF el.k \notin {"obj", "str", "list"} THEN [acc EXCEPT !.raised = TRUE]
    ELSE IF ~({"line", "comment"} \subseteq el.has) THEN acc
    ELSE IF el.k # "obj" THEN [acc EXCEPT !.raised = TRUE]
    ELSE IF Unhashable(el.line) THEN [acc EXCEPT !.raised = TRUE]
    ELSE IF ~PyIn(el.line, valid_comment_lines) THEN acc
    ELSE [acc EXCEPT !.valid = Append(acc.valid, el),
                     !.stopped = Len(acc.valid) + 1 >= MAX_COMMENTS_PER_FILE]

\* The loop of line 240 over the first n suggestions.
RECURSIVE FilterLoop(_, _)
FilterLoop(sugs, n) ==
    IF n = 0 THEN FilterInit ELSE FilterStep(FilterLoop(sugs, n - 1), sugs[n])

(***************************************************************************)
(* The run of main().                                                      *)
(***************************************************************************)
EXCLUDE_PATTERNS ==
    {".xcodeproj", ".xcworkspace", ".xcassets", ".pbxproj", ".xcuserstate", ".plist",
     ".lock", ".png", ".jpg", ".jpeg", ".gif", ".pdf", ".storyboard", ".xib", ".md",
     ".json", ".yaml", ".yml"}

\* A missing or empty 'patch'.
NoPatch == <<>>

\* A plausible slip: the status of the file is not looked at.
should_review_file_ignores_status(file_data) ==
    /\ ~(\E n \in 1..Len(file_data.filename) : file_data.filename[n] \in EXCLUDE_PATTERNS)
    /\ file_data.patch # NoPatch

\* A file name is the sequence of its parts; `pattern in filename` holds when a
\* part is the pattern.
should_review_file(file_data) ==
    /\ file_data.status # "removed"
    /\ ~(\E n \in 1..Len(file_data.filename) : file_data.filename[n] \in EXCLUDE_PATTERNS)
    /\ file_data.patch # NoPatch

Ev(op, f, arg) == [op |-> op, f |-> f, arg |-> arg]

Sleep(seconds) == Ev("sleep", 0, seconds)

\* The statuses of an inline POST, one for each branch of lines 294-305; 0 stands
\* for requests.post raising.
PostStatuses == {201, 422, 403, 500, 0}

\* The statuses of a summary POST, one for each branch of lines 429-450.
SummaryStatuses == {201, 403, 500, 0}

\* A plausible slip: the retry is made after any first response, a 201 included.
post_summary_comment_retries_any(body) ==
    {[events |-> <<Sleep(API_DELAY), Ev("summary_post", body, st1), Sleep(15),
                   Ev("summary_post", body, st2)>>,
      ok |-> st2 = 201] : st1 \in SummaryStatuses, st2 \in SummaryStatuses}

\* post_summary_comment with its decorator, as the set of its possible courses:
\* the events it adds to the trace and the value it returns.
post_summary_comment(body) ==
    LET first(st) == <<Sleep(API_DELAY), Ev("summary_post", body, st)>>
    IN {[events |-> first(st), ok |-> st = 201] : st \in SummaryStatuses \ {403}}
       \cup {[events |-> first(403) \o <<Sleep(15), Ev("summary_post", body, st)>>,
              ok |-> st = 201] : st \in SummaryStatuses}

\* The patches of the files of the run.
PatchTwoAdded == <<Header(10), Body(" "), Body("+"), Body("-"), Body("+")>>
PatchOneAdded == <<Header(1), Body("+")>>
PatchContextOnly == <<Header(3), Body(" "), Body("-")>>
PatchNoLines == <<Body("\\")>>
PatchAddedBeyondLimit == <<Header(1)>> \o Rep(Body(" "), CONTEXT_LIMIT) \o <<Body("+")>>

File(name, status, p) == [filename |-> name, status |-> status, patch |-> p]

ChangedFiles ==
    {File(<<"A", ".swift">>, "modified", PatchTwoAdded),
     File(<<"B", ".swift">>, "added", PatchOneAdded),
     File(<<"C", ".swift">>, "modified", PatchContextOnly),
     File(<<"D", ".swift">>, "modified", PatchNoLines),
     File(<<"E", ".swift">>, "modified", PatchAddedBeyondLimit),
     File(<<"F", ".swift">>, "removed", PatchContextOnly),
     File(<<"G", ".swift">>, "renamed", NoPatch),
     File(<<"README", ".md">>, "modified", PatchOneAdded)}

Listings == SeqsUpTo(ChangedFiles, MaxFiles)

\* What the model may put in a suggestion list, in every combination.
SuggestionElems ==
    {JObj(JInt(11), JStr(<<"a">>)),
     JObj(JInt(1), JStr(<<"a", "!">>)),
     JObj(JInt(12), JStr(<<" ">>)),
     JObj(JInt(12), JNull),
     JObjLineOnly(JInt(11))}

\* A list with more acceptable suggestions than the limit, for either file with
\* added lines, with unacceptable ones among the first.
ManySuggestions(lines) ==
    <<JObj(JInt(lines[1]), JStr(<<"a">>)),
      JObj(JInt(99), JStr(<<"a">>)),
      JObj(JFloat(lines[2]), JStr(<<" ", "a", ".">>)),
      JText({}),
      JObj(JInt(lines[1]), JStr(<<"a", "?">>)),
      JObjCommentOnly(JStr(<<"a">>)),
      JObj(JInt(lines[2]), JStr(<<"a", "a">>)),
      JObj(JInt(lines[1]), JStr(<<"a", " ", "a">>)),
      JObj(JInt(lines[2]), JStr(<<"a", "!">>)),
      JObj(JInt(lines[1]), JStr(<<"!">>))>>

\* Lists on which the validation loop raises after a suggestion it accepted.
RaisingSuggestions ==
    {<<JObj(JInt(11), JStr(<<"a">>)), bad>> :
        bad \in {JNumber, JNull, JText({"line", "comment"}), JObj(JList, JStr(<<"a">>))}}

SuggestionLists ==
    SeqsUpTo(SuggestionElems, MaxSuggestions)
        \cup {ManySuggestions(<<11, 12>>), ManySuggestions(<<1, 1>>)}
        \cup RaisingSuggestions

\* The outcomes of the inline model call and of json.loads on its answer.
ModelOutputs ==
    {[k |-> "error"], [k |-> "malformed"], [k |-> "object"], [k |-> "string"]}
        \cup {[k |-> "list", items |-> l] : l \in SuggestionLists}

Init ==
    /\ pc = "start"
    /\ NoRun
    /\ NoPosting
    /\ patch = <<>>
    /\ context_lines = <<>>
    /\ valid_comment_lines = {}
    /\ comment = <<>>
    /\ comment_text = <<>>

\* Lines 458-484: fetch the listing, filter it, and return early when it is
\* empty.  requests.get may raise, which nothing in main() catches.
FetchFiles ==
    /\ pc = "start"
    /\ \E got \in {"raises", "not_200", "ok"}, listing \in Listings :
        /\ got # "ok" => listing = <<>>
        /\ files' = listing
        /\ files_to_review' = SelectSeq(listing, should_review_file)
        /\ trace' = Append(trace, Ev("list_files", 0, 0))
        /\ pc' = IF got = "raises" THEN "crashed"
                 ELSE IF listing = <<>> THEN "done"
                 ELSE IF SelectSeq(listing, should_review_file) = <<>> THEN "no_files"
                 ELSE "review"
        /\ i' = IF SelectSeq(listing, should_review_file) = <<>> THEN 0 ELSE 1
    /\ UNCHANGED <<patch, context_lines, valid_comment_lines, suggestions,
                   valid_suggestions, n_posted, comment, comment_text, response, summary,
                   outcome, posts>>

\* Lines 471-482: the summary posted when no file passes the filter.
PostNoFilesSummary ==
    /\ pc = "no_files"
    /\ \E r \in post_summary_comment("no_files") : trace' = trace \o r.events
    /\ summary' = "no_files"
    /\ pc' = "done"
    /\ UNCHANGED <<files, files_to_review, i, patch, context_lines, valid_comment_lines,
                   suggestions, valid_suggestions, n_posted, comment, comment_text,
                   response, outcome, posts>>

\* The locals of review_file_inline go out of scope.
DropLocals ==
    /\ patch' = <<>>
    /\ context_lines' = <<>>
    /\ valid_comment_lines' = {}
    /\ suggestions' = <<>>
    /\ valid_suggestions' = <<>>
    /\ n_posted' = 0
    /\ comment' = <<>>
    /\ comment_text' = <<>>
    /\ response' = NoResponse
    /\ outcome' = "none"
    /\ posts' = <<>>

\* Lines 490-491 and 161-206: the loop takes file i and review_file_inline runs
\* up to the model call: read the file, parse the patch, return when there is
\* nothing to review.  open() may raise an OSError that line 171 does not
\* catch; it leaves review_file_inline.
StartReview ==
    /\ pc = "review"
    /\ \E read \in {"ok", "fallback", "raises"} :
        LET p == files_to_review[i].patch
            parsed == parse_diff_for_review(p)
            added_lines == SelectSeq(parsed.context_lines, LAMBDA l : l.type = "added")
        IN /\ patch' = p
           /\ trace' = Append(trace, Ev("review_start", i, 0))
           /\ IF read = "raises"
              THEN /\ pc' = "raised"
                   /\ outcome' = "raised"
                   /\ UNCHANGED <<context_lines, valid_comment_lines>>
              ELSE /\ context_lines' = parsed.context_lines
                   /\ valid_comment_lines' = parsed.valid_comment_lines
                   /\ pc' = IF parsed.context_lines = <<>> \/ added_lines = <<>>
                            THEN "return" ELSE "model"
                   /\ outcome' = IF parsed.context_lines = <<>> THEN "no_context"
                                 ELSE IF added_lines = <<>> THEN "no_added"
                                 ELSE "none"
    /\ UNCHANGED <<files, files_to_review, i, suggestions, valid_suggestions, n_posted,
                   comment, comment_text, response, summary, posts>>

\* Lines 208-257 and 272-276: the model call, json.loads and the validation
\* loop; every exception ends the review, caught in review_file_inline.
CallModel ==
    /\ pc = "model"
    /\ trace' = trace \o <<Sleep(1), Ev("model_call", i, 0)>>
    /\ \E out \in ModelOutputs :
        IF out.k # "list"
        THEN /\ outcome' = IF out.k = "error" THEN "model_error"
                           ELSE IF out.k = "malformed" THEN "malformed"
                           ELSE "non_list"
             /\ pc' = "return"
             /\ UNCHANGED <<suggestions, valid_suggestions>>
        ELSE LET acc == FilterLoop(out.items, Len(out.items))
             IN /\ suggestions' = out.items
                /\ IF acc.raised
                   THEN /\ outcome' = "validation_error"
                        /\ pc' = "return"
                        /\ UNCHANGED valid_suggestions
                   ELSE /\ valid_suggestions' = acc.valid
                        /\ outcome' = IF acc.valid = <<>> THEN "posted" ELSE "none"
                        /\ pc' = IF acc.valid = <<>> THEN "return" ELSE "post"
    /\ UNCHANGED <<files, files_to_review, i, patch, context_lines, valid_comment_lines,
                   n_posted, comment, comment_text, response, summary, posts>>

\* A plausible slip: the posting loop takes the accepted suggestions from the end.
PostInlineCommentNewestFirst ==
    /\ pc = "post"
    /\ LET suggestion == valid_suggestions[Len(valid_suggestions) - n_posted]
           last == n_posted + 1 = Len(valid_suggestions)
       IN IF suggestion.comment.k # "str"
          THEN /\ n_posted' = n_posted + 1
               /\ outcome' = "post_error"
               /\ pc' = "return"
               /\ UNCHANGED <<comment, comment_text, response, posts, trace>>
          ELSE /\ n_posted' = n_posted + 1
               /\ comment' = suggestion.comment.s
               /\ comment_text' = NormalizeComment(suggestion.comment.s)
               /\ posts' = Append(posts, [line |-> suggestion.line,
                                          text |-> NormalizeComment(suggestion.comment.s)])
               /\ \E st \in PostStatuses :
                      response' = [status |-> st, before |-> API_DELAY,
                                   after |-> IF st = 403 THEN 10 ELSE 0]
               /\ UNCHANGED trace
               /\ outcome' = IF last THEN "posted" ELSE "none"
               /\ pc' = IF last THEN "return" ELSE "post"
    /\ UNCHANGED <<files, files_to_review, i, patch, context_lines, valid_comment_lines,
                   suggestions, valid_suggestions, summary>>

\* Lines 260-270 and 278-305: one iteration of the posting loop.  .strip() on a
\* comment that is no string raises, which ends the review; the POST's outcome
\* changes nothing but the wait after a 403.
PostInlineComment ==
    /\ pc = "post"
    /\ LET suggestion == valid_suggestions[n_posted + 1]
           last == n_posted + 1 = Len(valid_suggestions)
       IN IF suggestion.comment.k # "str"
          THEN /\ n_posted' = n_posted + 1
               /\ outcome' = "post_error"
               /\ pc' = "return"
               /\ UNCHANGED <<comment, comment_text, response, posts, trace>>
          ELSE /\ n_posted' = n_posted + 1
               /\ comment' = suggestion.comment.s
               /\ comment_text' = NormalizeComment(suggestion.comment.s)
               /\ posts' = Append(posts, [line |-> suggestion.line,
                                          text |-> NormalizeComment(suggestion.comment.s)])
               /\ \E st \in PostStatuses :
                      response' = [status |-> st, before |-> API_DELAY,
                                   after |-> IF st = 403 THEN 10 ELSE 0]
               /\ UNCHANGED trace
               /\ outcome' = IF last THEN "posted" ELSE "none"
               /\ pc' = IF last THEN "return" ELSE "post"
    /\ UNCHANGED <<files, files_to_review, i, patch, context_lines, valid_comment_lines,
                   suggestions, valid_suggestions, summary>>

\* A plausible slip: the loop is left (break) instead of continued.
NextIterationBreaks ==
    /\ i' = i
    /\ pc' = "summary"

\* Lines 490 and 504: the next file, or the summary after the last one.
NextIteration ==
    /\ i' = IF i < Len(files_to_review) THEN i + 1 ELSE i
    /\ pc' = IF i < Len(files_to_review) THEN "review" ELSE "summary"

\* Lines 493-498: review_file_inline returned; wait unless this was the last file.
ReviewReturns ==
    /\ pc = "return"
    /\ LET unparsed == IF outcome \in {"malformed", "non_list"} THEN 1 ELSE 0
       IN trace' = IF i < Len(files_to_review)
                   THEN trace \o <<Ev("review_end", i, unparsed), Sleep(API_DELAY)>>
                   ELSE Append(trace, Ev("review_end", i, unparsed))
    /\ NextIteration
    /\ DropLocals
    /\ UNCHANGED <<files, files_to_review, summary>>

\* Lines 500-502: review_file_inline raised; the loop continues at once.
ReviewRaises ==
    /\ pc = "raised"
    /\ trace' = Append(trace, Ev("review_raised", i, 0))
    /\ NextIteration
    /\ DropLocals
    /\ UNCHANGED <<files, files_to_review, summary>>

\* Lines 505-510: wait, then generate_architectural_summary, which returns the
\* analysis or, when the model call fails, its fallback text.
GenerateSummary ==
    /\ pc = "summary"
    /\ trace' = trace \o <<Sleep(3), Ev("summary_model", 0, 0)>>
    /\ summary' \in {"analysis", "fallback"}
    /\ pc' = "post_summary"
    /\ UNCHANGED <<files, files_to_review, i, patch, context_lines, valid_comment_lines,
                   suggestions, valid_suggestions, n_posted, comment, comment_text,
                   response, outcome, posts>>

\* Lines 511-513: success = post_summary_comment(summary).
PostSummary ==
    /\ pc = "post_summary"
    /\ \E r \in post_summary_comment(summary) :
        /\ trace' = trace \o r.events
        /\ pc' = IF r.ok THEN "done" ELSE "post_simple"
    /\ UNCHANGED <<files, files_to_review, i, patch, context_lines, valid_comment_lines,
                   suggestions, valid_suggestions, n_posted, comment, comment_text,
                   response, summary, outcome, posts>>

\* Lines 514-526: the simplified summary after a failed post.  Nothing in lines
\* 506-526 raises an Exception (generate_architectural_summary and
\* post_summary_comment catch their own), so the handler of lines 528-540 and its
\* error summary are never entered and have no action here.
PostSimpleSummary ==
    /\ pc = "post_simple"
    /\ \E r \in post_summary_comment("simple") :
        trace' = trace \o <<Sleep(5)>> \o r.events
    /\ pc' = "done"
    /\ UNCHANGED <<files, files_to_review, i, patch, context_lines, valid_comment_lines,
                   suggestions, valid_suggestions, n_posted, comment, comment_text,
                   response, summary, outcome, posts>>

Next ==
    \/ FetchFiles
    \/ PostNoFilesSummary
    \/ StartReview
    \/ CallModel
    \/ PostInlineComment
    \/ ReviewReturns
    \/ ReviewRaises
    \/ GenerateSummary
    \/ PostSummary
    \/ PostSimpleSummary

Spec == Init /\ [][Next]_vars

(***************************************************************************)
(* The vocabulary of the run's claims.                                     *)
(***************************************************************************)
\* The valid-line set of the patch of the file under review, from the patch.
FileValid ==
    {DestLine(files_to_review[i].patch, q) : q \in AddedAt(files_to_review[i].patch)}

\* A suggestion that has both fields and a line of the set.
Passes(el, lines) ==
    /\ el.k = "obj"
    /\ {"line", "comment"} \subseteq el.has
    /\ el.line.k \in {"int", "float"}
    /\ el.line.n \in lines

FirstN(seq, n) == SubSeq(seq, 1, Min(n, Len(seq)))

SummaryPosted == \E n \in 1..Len(trace) : trace[n].op = "summary_post"

\* The review of file i has ended after json.loads returned a list.
ListReviewed == pc = "return" /\ outcome \in {"validation_error", "posted", "post_error"}

\* C1: every inline comment handed to post_inline_comment carries a line that
\* is in the valid-line set of the patch of the file under review; a
\* suggestion with another line is never posted.
C1_PostedLineIsValid ==
    \A n \in 1..Len(posts) :
        /\ posts[n].line.k \in {"int", "float"}
        /\ posts[n].line.n \in FileValid

C1_Witness ==
    /\ pc = "return"
    /\ Len(posts) >= 1
    /\ \E n \in 1..Len(suggestions) :
           /\ suggestions[n].k = "obj"
           /\ suggestions[n].has = {"line", "comment"}
           /\ suggestions[n].comment.k = "str"
           /\ suggestions[n].line.k = "int"
           /\ suggestions[n].line.n \notin FileValid

\* C2: for any model output at most MAX_COMMENTS_PER_FILE comments are accepted
\* and posted for a file, and the accepted ones are exactly the first
\* MAX_COMMENTS_PER_FILE suggestions that pass validation, in output order.
C2_FirstMaxAccepted ==
    ListReviewed =>
        LET want == FirstN(SelectSeq(suggestions, LAMBDA el : Passes(el, FileValid)),
                           MAX_COMMENTS_PER_FILE)
        IN /\ valid_suggestions = want
           /\ Len(posts) <= MAX_COMMENTS_PER_FILE
           /\ \A n \in 1..Len(posts) : posts[n].line = want[n].line

\* The same, for the model outputs on which the validation loop does not raise.
FirstMaxAcceptedUnlessRaised ==
    (ListReviewed /\ outcome # "validation_error") =>
        LET want == FirstN(SelectSeq(suggestions, LAMBDA el : Passes(el, FileValid)),
                           MAX_COMMENTS_PER_FILE)
        IN /\ valid_suggestions = want
           /\ Len(posts) <= MAX_COMMENTS_PER_FILE
           /\ \A n \in 1..Len(posts) : posts[n].line = want[n].line

\* C3: the run does not end before a summary post has been attempted, whatever
\* the file listing returned.
C3_RunEndsWithSummaryAttempt == pc \in {"done", "crashed"} => SummaryPosted

\* C8: every comment text handed to post_inline_comment is non-empty and ends
\* with '.', '!' or '?'.
C8_PostedTextEndsSentence ==
    \A n \in 1..Len(posts) : posts[n].text # <<>> /\ endswith(posts[n].text, SENTENCE_END)

\* C10: when the model's answer does not parse, or parses to a value that is
\* no list, no inline comment is posted for the file, the run goes on with the
\* next file, and it ends with a summary post.
C10_ParseFailureSkipsFile ==
    /\ [](pc = "return" /\ outcome \in {"malformed", "non_list"} => posts = <<>>)
    /\ [][(pc = "return" /\ outcome \in {"malformed", "non_list"}) =>
              /\ pc' = IF i < Len(files_to_review) THEN "review" ELSE "summary"
              /\ i' = IF i < Len(files_to_review) THEN i + 1 ELSE i
              /\ files_to_review' = files_to_review]_vars
    /\ [](pc = "done" /\ files_to_review # <<>> => SummaryPosted)
    /\ [](pc # "crashed" \/ files_to_review = <<>>)

C10_Witness ==
    /\ pc = "review"
    /\ i = 2
    /\ \E n \in 1..Len(trace) : trace[n] = Ev("model_call", 1, 0)
    /\ trace[Len(trace) - 1] = Ev("review_end", 1, 1)

\* The events of the trace that belong to one file's review, and their order
\* within a review.
FileOps == {"review_start", "model_call", "review_end", "review_raised"}

Stage(op) == IF op = "review_start" THEN 1 ELSE IF op = "model_call" THEN 2 ELSE 3

FileEvents == SelectSeq(trace, LAMBDA e : e.op \in FileOps)

Started(f) == \E n \in 1..Len(trace) : trace[n] = Ev("review_start", f, 0)

InReview == pc \in {"model", "post", "return", "raised"}

AfterLoop == pc \in {"summary", "post_summary", "post_simple", "done"} /\ files_to_review # <<>>

SummaryPostAt(n) == trace[n].op = "summary_post"

Unreviewable(file_data) == file_data.status = "removed" \/ file_data.patch = NoPatch

\* C11: a failure in the review of one file does not stop the run: the review
\* of every file that passed the filter is started, whatever happened in the
\* reviews before it, and the loop is left only after the last file.
C11_FailureNeverStopsRun ==
    /\ \A f \in 1..Len(files_to_review) :
           (f < i \/ (f = i /\ pc # "review")) => Started(f)
    /\ AfterLoop => i = Len(files_to_review)
    /\ pc = "crashed" => files_to_review = <<>>

C11_Witness ==
    /\ pc = "done"
    /\ Len(files_to_review) = 2
    /\ \E n \in 1..(Len(trace) - 1) :
           /\ trace[n] = Ev("review_raised", 1, 0)
           /\ trace[n + 1] = Ev("review_start", 2, 0)

\* C12: the files are reviewed one after the other in the order of the
\* listing: the start, the model call and the end of one file's review come
\* before the start of the next file's; the inline comments of a file are
\* posted after its model call and before its review ends, one per step, in
\* the order in which validation accepted them.
C12_SequentialInOrder ==
    /\ files_to_review = SelectSeq(files, should_review_file)
    /\ LET events == FileEvents
       IN /\ \A a \in 1..(Len(events) - 1) :
                 \/ events[a].f < events[a + 1].f
                 \/ /\ events[a].f = events[a + 1].f
                    /\ Stage(events[a].op) < Stage(events[a + 1].op)
          /\ \A a \in 1..Len(events) :
                 events[a].op = "review_start" =>
                     events[a].f = IF a = 1 THEN 1 ELSE events[a - 1].f + 1
    /\ posts # <<>> =>
           /\ pc \in {"post", "return"}
           /\ trace[Len(trace)] = Ev("model_call", i, 0)
    /\ Len(posts) <= n_posted
    /\ n_posted <= Len(valid_suggestions)
    /\ \A n \in 1..Len(posts) :
           /\ posts[n].line = valid_suggestions[n].line
           /\ posts[n].text = NormalizeComment(valid_suggestions[n].comment.s)

C12_Witness ==
    /\ pc = "return"
    /\ i = 2
    /\ \E n \in 1..Len(trace) : trace[n] = Ev("model_call", 1, 0)
    /\ Len(posts) = 2
    /\ posts[1].line # posts[2].line

\* C13: every suggestion that validation accepted for a file is handed to
\* post_inline_comment exactly once, in whatever way the posting of it or of
\* an earlier one ended.
C13_EveryAcceptedPostedOnce ==
    (pc = "return" /\ outcome \in {"posted", "post_error"}) =>
        /\ Len(posts) = Len(valid_suggestions)
        /\ \A n \in 1..Len(valid_suggestions) :
               Cardinality({m \in 1..Len(posts) : posts[m].line = valid_suggestions[n].line})
                   = Cardinality({m \in 1..Len(valid_suggestions) :
                                      valid_suggestions[m].line = valid_suggestions[n].line})

\* C14: over a whole run a summary POST that fails is followed by at most one
\* further summary POST, and that one comes after a wait.
C14_SingleRetryAfterBackoff ==
    \A n \in 1..Len(trace) :
        (SummaryPostAt(n) /\ trace[n].arg # 201) =>
            /\ Cardinality({m \in (n + 1)..Len(trace) : SummaryPostAt(m)}) <= 1
            /\ \A m \in (n + 1)..Len(trace) : SummaryPostAt(m) => trace[m - 1].op = "sleep"

\* C15: a changed file with status 'removed' or without a patch is not among
\* the files to review; only the files to review are parsed, sent to the model
\* and commented on, so such a file never is.
C15_RemovedOrPatchlessExcluded ==
    /\ \A n \in 1..Len(files_to_review) :
           /\ ~Unreviewable(files_to_review[n])
           /\ \E m \in 1..Len(files) : files[m] = files_to_review[n]
    /\ \A n \in 1..Len(trace) :
           trace[n].op \in FileOps => trace[n].f \in 1..Len(files_to_review)
    /\ (InReview \/ posts # <<>> \/ context_lines # <<>>) =>
           /\ i \in 1..Len(files_to_review)
           /\ patch = files_to_review[i].patch
           /\ patch # NoPatch

C15_Witness ==
    /\ pc = "return"
    /\ posts # <<>>
    /\ \E n \in 1..Len(files) : files[n].status = "removed"
    /\ Len(files_to_review) = 1

\* C17: the review of a file ends before the model call only when its patch
\* has no added line; a patch with an added line, wherever in the patch it
\* lies, has the model called for its file.
C17_SkippedOnlyWithoutAdded ==
    pc = "return" =>
        /\ outcome \in {"no_context", "no_added"} => AddedAt(patch) = {}
        /\ AddedAt(patch) # {} => trace[Len(trace)] = Ev("model_call", i, 0)

\* C18: the start of the review of every file but the first comes right after
\* a wait of API_DELAY, in whatever way the review before it ended.
C18_DelayBetweenFiles ==
    \A n \in 2..Len(trace) :
        (trace[n].op = "review_start" /\ trace[n].f > 1) => trace[n - 1] = Sleep(API_DELAY)

\* C20: a summary POST answered 201 is the last summary POST of the run, so at
\* most one summary comment is created.
C20_NoSummaryPostAfterSuccess ==
    /\ \A n \in 1..Len(trace) :
           (SummaryPostAt(n) /\ trace[n].arg = 201) =>
               /\ n = Len(trace)
               /\ pc = "done"
    /\ Cardinality({n \in 1..Len(trace) : SummaryPostAt(n) /\ trace[n].arg = 201}) <= 1

C20_Witness ==
    /\ pc = "done"
    /\ SummaryPostAt(Len(trace))
    /\ trace[Len(trace)].arg = 201
    /\ trace[Len(trace)].f = "simple"
    /\ Cardinality({n \in 1..Len(trace) : SummaryPostAt(n) /\ trace[n].arg = 403}) = 2

====
